---- MODULE Spec2Model ----
(***************************************************************************)
(* Model of the drum-machine pattern decoder, src/decoder.go.              *)
(*                                                                         *)
(* The source file holds two revisions of the decoder:                     *)
(*   revision 1 (lines 1-186)   reads every field straight from the file   *)
(*                              with f.Read and counts the bytes that are  *)
(*                              left in an unsigned 64-bit counter;        *)
(*   revision 2 (lines 188-350) reads the framed payload with io.ReadFull  *)
(*                              and then slices it.                        *)
(* Both are modelled; the variable rev says which one a behaviour runs.    *)
(*                                                                         *)
(* A byte is a number in 0..255, a byte slice and a string are sequences   *)
(* of bytes, a file is the sequence of its bytes.                          *)
(***************************************************************************)
EXTENDS Integers, Sequences, FiniteSets, TLC

(***************************************************************************)
(* Bounds of the explored inputs.                                          *)
(***************************************************************************)
\* longest instrument name written into an input file
MaxNameLen == 2
\* largest number of instrument records written into an input file
MaxInstruments == 2
\* largest number of bytes cut off the end of an input file
MaxTrunc == 2

(***************************************************************************)
(* Program constants.                                                      *)
(***************************************************************************)
HeaderLen  == 13
SizeLen    == 1
VersionLen == 32
TempoLen   == 4
NumLen     == 4
StepLen    == 4
StepsPerMeasure == 4

\* the text "SPLICE"
SPLICE == <<83, 80, 76, 73, 67, 69>>

(***************************************************************************)
(* Byte-slice helpers.                                                     *)
(***************************************************************************)
Min(a, b) == IF a < b THEN a ELSE b

\* make([]byte, n): n zero bytes
Zeros(n) == [i \in 1..n |-> 0]

\* s[0:n] for n <= len(s)
Take(s, n) == SubSeq(s, 1, n)

\* s[n:] for n <= len(s)
Drop(s, n) == SubSeq(s, n + 1, Len(s))

RECURSIVE TrimLeftZeros(_)
TrimLeftZeros(s) ==
    IF s # <<>> /\ Head(s) = 0 THEN TrimLeftZeros(Tail(s)) ELSE s

RECURSIVE TrimRightZeros(_)
TrimRightZeros(s) ==
    IF s # <<>> /\ s[Len(s)] = 0 THEN TrimRightZeros(Take(s, Len(s) - 1)) ELSE s

\* bytes.Trim(s, "\x00"): every leading and every trailing zero byte is cut
Trim(s) == TrimRightZeros(TrimLeftZeros(s))

\* the same four bytes taken most significant byte first
BigEndian32(b) == 16777216 * b[1] + 65536 * b[2] + 256 * b[3] + b[4]

\* binary.Read(buf, binary.LittleEndian, &x) for a 4-byte buffer: the 32 bits,
\* least significant byte first
LittleEndian32(b) == b[1] + 256 * b[2] + 65536 * b[3] + 16777216 * b[4]

\* f.Read(b) with len(b) = n on a regular file at offset off: the bytes that
\* are there, at most n; io.EOF only when n > 0 and none is there.  The
\* buffer was made zeroed, so what a short read does not fill stays zero.
Read(f, off, n) ==
    LET cnt == Min(n, Len(f) - off)
    IN  [n   |-> cnt,
         err |-> (n > 0 /\ cnt = 0),
         buf |-> SubSeq(f, off + 1, off + cnt) \o Zeros(n - cnt)]

\* io.ReadFull(f, b) with len(b) = n: an error unless all n bytes are there
ReadFull(f, off, n) ==
    LET cnt == Min(n, Len(f) - off)
    IN  [n   |-> cnt,
         err |-> (cnt < n),
         buf |-> SubSeq(f, off + 1, off + cnt) \o Zeros(n - cnt)]

\* parseHeader: TRUE when it returns a nil error
parseHeader(h) == Trim(h) = SPLICE

(***************************************************************************)
(* Patterns and instruments.                                               *)
(***************************************************************************)
\* &Pattern{} / var p Pattern: the zero value
ZeroPattern == [version |-> <<>>, tempo |-> 0, instruments |-> <<>>]

\* &instrument{} / var inst Instrument: the zero value
ZeroInstrument == [num |-> 0, name |-> <<>>, measure |-> <<>>]

\* the width of numBytesRead in revision 1
Uint16(n) == n % 65536

\* the loop reading the four steps of a measure, revision 1 (lines 161-172)
RECURSIVE readSteps1(_, _, _, _, _)
readSteps1(f, off, n, inst, i) ==
    IF i = StepsPerMeasure
    THEN [n |-> n, inst |-> inst, err |-> FALSE, off |-> off]
    ELSE LET r == Read(f, off, StepLen)
             m == Uint16(n + StepLen)
         IN  IF r.err
             THEN [n |-> m, inst |-> inst, err |-> TRUE, off |-> off]
             ELSE readSteps1(f, off + r.n, m,
                             [inst EXCEPT !.measure = Append(@, r.buf)], i + 1)

\* readInstrument, revision 1: the count it reports, the instrument, whether
\* the error is non-nil, and the file offset it leaves
readInstrument1(f, off) ==
    LET r1 == Read(f, off, NumLen)
    IN  IF r1.err
        THEN [n |-> NumLen, inst |-> ZeroInstrument, err |-> TRUE, off |-> off]
        ELSE
        LET o1   == off + r1.n
            inst1 == [ZeroInstrument EXCEPT !.num = LittleEndian32(r1.buf)]
            r2   == Read(f, o1, 1)
        IN  IF r2.err
            THEN [n |-> NumLen + 1, inst |-> inst1, err |-> TRUE, off |-> o1]
            ELSE
            LET nameLength == r2.buf[1]
                o2 == o1 + r2.n
                n3 == Uint16(NumLen + 1 + nameLength)
                r3 == Read(f, o2, nameLength)
            IN  IF r3.err
                THEN [n |-> n3, inst |-> inst1, err |-> TRUE, off |-> o2]
                ELSE readSteps1(f, o2 + r3.n, n3,
                                [inst1 EXCEPT !.name = r3.buf], 0)

\* the loop slicing the four steps of a measure, revision 2 (lines 330-336);
\* slicing past the end of the slice panics
RECURSIVE readSteps2(_, _, _)
readSteps2(rb, inst, i) ==
    IF i = StepsPerMeasure
    THEN [inst |-> inst, rb |-> rb, panic |-> FALSE]
    ELSE IF Len(rb) < StepLen
         THEN [inst |-> inst, rb |-> rb, panic |-> TRUE]
         ELSE readSteps2(Drop(rb, StepLen),
                         [inst EXCEPT !.measure = Append(@, Take(rb, StepLen))],
                         i + 1)

\* readInstrument, revision 2: the instrument and the bytes left, or a panic
\* (slice bounds out of range)
readInstrument2(remainingBytes) ==
    IF Len(remainingBytes) < NumLen
    THEN [inst |-> ZeroInstrument, rb |-> remainingBytes, panic |-> TRUE]
    ELSE
    LET inst1 == [ZeroInstrument EXCEPT
                     !.num = LittleEndian32(Take(remainingBytes, NumLen))]
        rb1   == Drop(remainingBytes, NumLen)
    IN  IF Len(rb1) < 1
        THEN [inst |-> inst1, rb |-> rb1, panic |-> TRUE]
        ELSE
        LET nameLength == rb1[1]
            rb2 == Drop(rb1, 1)
        IN  IF Len(rb2) < nameLength
            THEN [inst |-> inst1, rb |-> rb2, panic |-> TRUE]
            ELSE readSteps2(Drop(rb2, nameLength),
                            [inst1 EXCEPT !.name = Take(rb2, nameLength)], 0)

(***************************************************************************)
(* The loop conditions of the two revisions.                               *)
(*                                                                         *)
(* numBytesRemaining is a uint64.  The model keeps the integer r with      *)
(* numBytesRemaining = r % 2^64 and -2^64 < r < 2^64: a negative r is the  *)
(* counter after it wrapped below zero.  The value r % 2^64 is greater     *)
(* than zero exactly when r is not zero.                                   *)
(***************************************************************************)
\* the comparison as it would be on a signed counter
MoreInstrumentsSigned(r) == r > 0

\* numBytesRemaining > 0 (line 79)
MoreInstruments1(r) == r # 0

\* len(remainingBytes) > 0 (line 304)
MoreInstruments2(rb) == Len(rb) > 0

(***************************************************************************)
(* Input files.                                                            *)
(***************************************************************************)
\* the written form of the fields
PutLittleEndian32(x) ==
    <<x % 256, (x \div 256) % 256, (x \div 65536) % 256, (x \div 16777216) % 256>>

Pad(s, n) == s \o Zeros(n - Len(s))

RECURSIVE Flatten(_)
Flatten(ss) == IF ss = <<>> THEN <<>> ELSE Head(ss) \o Flatten(Tail(ss))

RECURSIVE Sum(_)
Sum(s) == IF s = <<>> THEN 0 ELSE Head(s) + Sum(Tail(s))

PutInstrument(num, name, measure) ==
    PutLittleEndian32(num) \o <<Len(name)>> \o name \o Flatten(measure)

HeaderChoices ==
    { Pad(SPLICE, HeaderLen),                          \* "SPLICE" and padding
      <<0>> \o Pad(SPLICE, HeaderLen - 1),             \* a zero byte in front
      Pad(<<83, 80, 76, 73, 67, 70>>, HeaderLen) }     \* "SPLICF"

VersionChoices ==
    { Pad(<<48, 46, 56, 48, 56>>, VersionLen),         \* "0.808"
      Pad(<<0, 49>>, VersionLen),                      \* a zero byte in front
      Pad(<<49, 0, 7>>, VersionLen) }                  \* zero byte inside, BEL

\* 120.0 as a float32, least significant byte first
TempoChoices == { <<0, 0, 240, 66>> }

\* a name of n bytes that ends in a zero byte
NameOf(n) == [i \in 1..n |-> IF i = n THEN 0 ELSE 107]

\* the number of the instrument whose name has n bytes: 1, 258, 515, ...
NumOf(n) == 1 + 257 * n

\* four different steps, so that their order shows
MeasureOf(n) == << <<1, 0, 0, 0>>, <<0, 1, 0, 0>>, <<0, 0, 1, 0>>, <<n, 0, 0, 255>> >>

InstrumentChoices ==
    { PutInstrument(NumOf(n), NameOf(n), MeasureOf(n)) : n \in 0..MaxNameLen }

InstrumentLists ==
    UNION { [1..k -> InstrumentChoices] : k \in 0..MaxInstruments }

\* the size bytes tried for a payload of p bytes
SizeChoices(p) ==
    { p, p + 1, p - 1, p - 21, 0, 33 } \cap 0..255

\* the lengths an input of n bytes is cut to
CutChoices(n) ==
    { n - t : t \in 0..MaxTrunc } \cup ({ 6, 14, 30 } \cap 0..n)

\* the input files with header h and payload (version, tempo, records) pl
FilesOf(h, pl) ==
    UNION { { Take(h \o <<sz>> \o pl, cut) :
                cut \in CutChoices(HeaderLen + SizeLen + Len(pl)) } :
            sz \in SizeChoices(Len(pl)) }

\* a header and a version field: every header with the plain version, the
\* plain header with every version
Fronts ==
    { <<h, Pad(<<48, 46, 56, 48, 56>>, VersionLen)>> : h \in HeaderChoices }
    \cup { <<Pad(SPLICE, HeaderLen), v>> : v \in VersionChoices }

Files ==
    UNION { FilesOf(hv[1], hv[2] \o t \o Flatten(is)) :
              hv \in Fronts, t \in TempoChoices, is \in InstrumentLists }

(***************************************************************************)
(* The state of one call of DecodeFile.                                    *)
(***************************************************************************)
VARIABLES
    rev,                \* which revision of the decoder runs: 1 or 2
    file,               \* the bytes of the file at path
    off,                \* the read offset of f
    open,               \* whether f is open
    pc,                 \* the stage DecodeFile executes next, or "Done"
    stage,              \* the stage DecodeFile executed last
    outcome,            \* "None", or how the call ended
    p,                  \* the Pattern p
    headerBin,          \* the header buffer
    numBytesSlice,      \* the size buffer
    numBytesRemaining,  \* the counter of revision 1 (see MoreInstruments1)
    remainingBytes,     \* the slice of revision 2
    instruments,        \* the list readInstruments builds in revision 2
    counts              \* the byte count every parsed record reported

vars == <<rev, file, off, open, pc, stage, outcome, p, headerBin,
          numBytesSlice, numBytesRemaining, remainingBytes, instruments,
          counts>>

Init ==
    /\ rev \in {1, 2}
    /\ file \in Files
    /\ off = 0
    /\ open = FALSE
    /\ pc = "Open"
    /\ stage = "Open"
    /\ outcome = "None"
    /\ p = ZeroPattern
    /\ headerBin = Zeros(HeaderLen)
    /\ numBytesSlice = Zeros(SizeLen)
    /\ numBytesRemaining = 0
    /\ remainingBytes = <<>>
    /\ instruments = <<>>
    /\ counts = <<>>

\* return p, err with a non-nil err
Fail == pc' = "Done" /\ outcome' = "Failure"

\* a run-time panic: the call returns nothing
Panic == pc' = "Done" /\ outcome' = "Panic"

\* os.Open (lines 34-37, 226-229)
Open ==
    /\ pc = "Open"
    /\ \E ok \in BOOLEAN :
          IF ok THEN open' = TRUE /\ pc' = "Header" /\ outcome' = outcome
                ELSE open' = FALSE /\ Fail
    /\ UNCHANGED <<rev, file, off, stage, p, headerBin, numBytesSlice,
                   numBytesRemaining, remainingBytes, instruments, counts>>

\* the header stage (lines 39-47, 231-238)
Header ==
    /\ pc = "Header"
    /\ stage' = "Header"
    /\ LET r == Read(file, off, HeaderLen)
       IN  /\ off' = off + r.n
           /\ headerBin' = r.buf
           /\ IF r.err \/ ~parseHeader(r.buf)
              THEN Fail
              ELSE pc' = "Size" /\ outcome' = outcome
    /\ UNCHANGED <<rev, file, open, p, numBytesSlice, numBytesRemaining,
                   remainingBytes, instruments, counts>>

\* the size stage (lines 49-56, 240-246)
Size ==
    /\ pc = "Size"
    /\ stage' = "Size"
    /\ LET r == Read(file, off, SizeLen)
       IN  /\ off' = off + r.n
           /\ numBytesSlice' = r.buf
           /\ IF r.err
              THEN Fail /\ numBytesRemaining' = numBytesRemaining
              ELSE /\ pc' = "Version" /\ outcome' = outcome
                   /\ numBytesRemaining' = r.buf[1]
    /\ UNCHANGED <<rev, file, open, p, headerBin, remainingBytes,
                   instruments, counts>>

\* the version stage of revision 1 (lines 58-66)
Version1 ==
    /\ pc = "Version" /\ rev = 1
    /\ stage' = "Version"
    /\ numBytesRemaining' = numBytesRemaining - VersionLen
    /\ LET r == Read(file, off, VersionLen)
       IN  /\ off' = off + r.n
           /\ IF r.err
              THEN Fail /\ p' = p
              ELSE /\ pc' = "Tempo" /\ outcome' = outcome
                   /\ p' = [p EXCEPT !.version = Trim(r.buf)]
    /\ UNCHANGED <<rev, file, open, headerBin, numBytesSlice, remainingBytes,
                   instruments, counts>>

\* the tempo stage of revision 1 (lines 68-77)
Tempo1 ==
    /\ pc = "Tempo" /\ rev = 1
    /\ stage' = "Tempo"
    /\ numBytesRemaining' = numBytesRemaining - TempoLen
    /\ LET r == Read(file, off, TempoLen)
       IN  /\ off' = off + r.n
           /\ IF r.err
              THEN Fail /\ p' = p
              ELSE /\ pc' = "InstrumentLoop" /\ outcome' = outcome
                   /\ p' = [p EXCEPT !.tempo = LittleEndian32(r.buf)]
    /\ UNCHANGED <<rev, file, open, headerBin, numBytesSlice, remainingBytes,
                   instruments, counts>>

\* one turn of the instrument loop of revision 1 (lines 79-88)
Instrument1 ==
    /\ pc = "InstrumentLoop" /\ rev = 1
    /\ MoreInstruments1(numBytesRemaining)
    /\ stage' = "InstrumentLoop"
    /\ LET r == readInstrument1(file, off)
       IN  /\ off' = r.off
           /\ IF r.err
              THEN Fail /\ UNCHANGED <<p, numBytesRemaining, counts>>
              ELSE /\ pc' = pc /\ outcome' = outcome
                   /\ p' = [p EXCEPT !.instruments = Append(@, r.inst)]
                   /\ numBytesRemaining' = numBytesRemaining - r.n
                   /\ counts' = Append(counts, r.n)
    /\ UNCHANGED <<rev, file, open, headerBin, numBytesSlice, remainingBytes,
                   instruments>>

\* the end of the instrument loop of revision 1 and return p, nil (line 90)
Return1 ==
    /\ pc = "InstrumentLoop" /\ rev = 1
    /\ ~MoreInstruments1(numBytesRemaining)
    /\ stage' = "InstrumentLoop"
    /\ pc' = "Done" /\ outcome' = "Success"
    /\ UNCHANGED <<rev, file, off, open, p, headerBin, numBytesSlice,
                   numBytesRemaining, remainingBytes, instruments, counts>>

\* the version stage of revision 2: the payload is read whole, then sliced
\* (lines 248-256)
Version2 ==
    /\ pc = "Version" /\ rev = 2
    /\ stage' = "Version"
    /\ LET r == ReadFull(file, off, numBytesRemaining)
       IN  /\ off' = off + r.n
           /\ IF r.err
              THEN Fail /\ UNCHANGED <<p, remainingBytes>>
              ELSE IF Len(r.buf) < VersionLen
              THEN Panic /\ p' = p /\ remainingBytes' = r.buf
              ELSE /\ pc' = "Tempo" /\ outcome' = outcome
                   /\ p' = [p EXCEPT !.version = Trim(Take(r.buf, VersionLen))]
                   /\ remainingBytes' = Drop(r.buf, VersionLen)
    /\ UNCHANGED <<rev, file, open, headerBin, numBytesSlice,
                   numBytesRemaining, instruments, counts>>

\* the tempo stage of revision 2 (lines 258-260)
Tempo2 ==
    /\ pc = "Tempo" /\ rev = 2
    /\ stage' = "Tempo"
    /\ IF Len(remainingBytes) < TempoLen
       THEN Panic /\ UNCHANGED <<p, remainingBytes>>
       ELSE /\ pc' = "InstrumentLoop" /\ outcome' = outcome
            /\ p' = [p EXCEPT !.tempo =
                                  LittleEndian32(Take(remainingBytes, TempoLen))]
            /\ remainingBytes' = Drop(remainingBytes, TempoLen)
    /\ UNCHANGED <<rev, file, off, open, headerBin, numBytesSlice,
                   numBytesRemaining, instruments, counts>>

\* one turn of the loop of readInstruments, revision 2 (lines 304-309)
Instrument2 ==
    /\ pc = "InstrumentLoop" /\ rev = 2
    /\ MoreInstruments2(remainingBytes)
    /\ stage' = "InstrumentLoop"
    /\ LET r == readInstrument2(remainingBytes)
       IN  IF r.panic
           THEN Panic /\ UNCHANGED <<remainingBytes, instruments, counts>>
           ELSE /\ pc' = pc /\ outcome' = outcome
                /\ remainingBytes' = r.rb
                /\ instruments' = Append(instruments, r.inst)
                /\ counts' = Append(counts, Len(remainingBytes) - Len(r.rb))
    /\ UNCHANGED <<rev, file, off, open, p, headerBin, numBytesSlice,
                   numBytesRemaining>>

\* readInstruments returns, the file is closed and DecodeFile returns
\* (lines 262-267, 310); f.Close may report an error
Return2 ==
    /\ pc = "InstrumentLoop" /\ rev = 2
    /\ ~MoreInstruments2(remainingBytes)
    /\ stage' = "InstrumentLoop"
    /\ p' = [p EXCEPT !.instruments = instruments]
    /\ open' = FALSE
    /\ pc' = "Done"
    /\ \E ok \in BOOLEAN : outcome' = IF ok THEN "Success" ELSE "Failure"
    /\ UNCHANGED <<rev, file, off, headerBin, numBytesSlice,
                   numBytesRemaining, remainingBytes, instruments, counts>>

Next ==
    \/ Open \/ Header \/ Size
    \/ Version1 \/ Tempo1 \/ Instrument1 \/ Return1
    \/ Version2 \/ Tempo2 \/ Instrument2 \/ Return2

Spec == Init /\ [][Next]_vars

(***************************************************************************)
(* Notions the properties below are stated in.                             *)
(***************************************************************************)
\* the size byte has been read: the declared payload length is known
SizeRead == stage \in {"Version", "Tempo", "InstrumentLoop"} \/ pc = "Version"

\* the declared payload length N
DeclaredSize == numBytesSlice[1]

\* the bytes the instrument loop still expects
Remainder == IF rev = 1 THEN numBytesRemaining ELSE Len(remainingBytes)

\* the instruments parsed so far
Parsed == IF rev = 1 THEN p.instruments ELSE instruments

\* the file offset at which the record parsed last begins
LastRecordStart ==
    HeaderLen + SizeLen + VersionLen + TempoLen
        + Sum(SubSeq(counts, 1, Len(counts) - 1))

StageRank(s) ==
    CASE s = "Open" -> 0
      [] s = "Header" -> 1
      [] s = "Size" -> 2
      [] s = "Version" -> 3
      [] s = "Tempo" -> 4
      [] s = "InstrumentLoop" -> 5
      [] s = "Done" -> 6

(***************************************************************************)
(* C1.  Whenever DecodeFile returns success, the 36 bytes of metadata plus *)
(* the byte counts reported for the parsed instrument records add up to    *)
(* exactly the declared payload length N.                                  *)
(***************************************************************************)
C1_ConsumedEqualsDeclared ==
    outcome = "Success" =>
        VersionLen + TempoLen + Sum(counts) = DeclaredSize

\* revision 1 returns success after two records
C1_Witness == outcome = "Success" /\ rev = 1 /\ Len(counts) = 2

(***************************************************************************)
(* C2.  In the instrument loop the bytes-remaining counter never goes      *)
(* below zero, and the loop ends either in success with the remainder at   *)
(* exactly zero or in a returned failure (N is at least 36 here; C3 is     *)
(* about the smaller N).                                                   *)
(***************************************************************************)
C2_RemainderExact ==
    (stage = "InstrumentLoop" /\ DeclaredSize >= VersionLen + TempoLen) =>
        /\ numBytesRemaining >= 0
        /\ pc = "Done" =>
              \/ outcome = "Success" /\ Remainder = 0
              \/ outcome = "Failure"

(***************************************************************************)
(* C3.  With a declared payload length N below 36, DecodeFile ends in      *)
(* failure: it does not go on to the instrument loop with a wrapped        *)
(* remainder, and the call neither panics nor succeeds.                    *)
(***************************************************************************)
C3_ShortPayloadFails ==
    (SizeRead /\ DeclaredSize < VersionLen + TempoLen) =>
        /\ pc # "InstrumentLoop"
        /\ pc = "Done" => outcome = "Failure"

(***************************************************************************)
(* C4.  A Pattern returned with an error carries no decoded data, and the  *)
(* Pattern's instruments are non-empty only once the whole framed payload  *)
(* has been consumed.                                                      *)
(***************************************************************************)
C4_NoPartialPattern ==
    /\ outcome = "Failure" => p = ZeroPattern
    /\ p.instruments # <<>> => Remainder = 0

(***************************************************************************)
(* C5.  Whenever DecodeFile has returned, the byte source is closed.       *)
(***************************************************************************)
C5_ClosedOnReturn == pc = "Done" => ~open

(***************************************************************************)
(* C6.  parseHeader accepts a 13-byte buffer exactly when the buffer with  *)
(* its trailing zero bytes stripped is "SPLICE".                           *)
(***************************************************************************)
C6_HeaderTrailingOnly ==
    (stage # "Open" /\ Len(file) > 0) =>
        (~(stage = "Header" /\ pc = "Done")
            <=> TrimRightZeros(headerBin) = SPLICE)

(***************************************************************************)
(* C7.  DecodeFile never returns success when the source ended before it   *)
(* supplied every byte of the fields read: success needs all N declared    *)
(* bytes to be present after the size byte.                                *)
(***************************************************************************)
C7_ShortReadFails ==
    outcome = "Success" => Len(file) >= HeaderLen + SizeLen + DeclaredSize

(***************************************************************************)
(* C8.  The decoded version is the 32-byte version field with exactly its  *)
(* trailing zero bytes removed.                                            *)
(***************************************************************************)
C8_VersionTrailingOnly ==
    (stage = "Version" /\ pc = "Tempo"
        /\ Len(file) >= HeaderLen + SizeLen + VersionLen) =>
        p.version = TrimRightZeros(SubSeq(file, HeaderLen + SizeLen + 1,
                                          HeaderLen + SizeLen + VersionLen))

(***************************************************************************)
(* C9.  When readInstrument is fed the written form of an instrument (its  *)
(* number, least significant byte first, the length of its name, the name  *)
(* and its four steps), it yields that number, that name untrimmed and     *)
(* those four steps in order, and reports 5 + L + 16 bytes consumed.       *)
(***************************************************************************)
C9_RoundTrip ==
    \A n \in 0..MaxNameLen :
        LET raw == PutInstrument(NumOf(n), NameOf(n), MeasureOf(n))
        IN  (/\ counts # <<>>
             /\ Len(file) >= LastRecordStart + Len(raw)
             /\ SubSeq(file, LastRecordStart + 1, LastRecordStart + Len(raw)) = raw)
            => /\ Parsed[Len(Parsed)] =
                     [num |-> NumOf(n), name |-> NameOf(n), measure |-> MeasureOf(n)]
               /\ counts[Len(counts)] = NumLen + 1 + n + StepsPerMeasure * StepLen

\* a record with the longest name has been parsed after another record
C9_Witness ==
    /\ Len(counts) = 2
    /\ Len(Parsed) = 2
    /\ Parsed[2].name = NameOf(MaxNameLen)
    /\ Parsed[2].num = NumOf(MaxNameLen)

(***************************************************************************)
(* C10.  DecodeFile moves through the stages Header, Size, Version, Tempo, *)
(* InstrumentLoop in that order, never back, and stops in one of exactly   *)
(* two ways: with success, the Pattern fully populated, or with a returned *)
(* error.                                                                  *)
(***************************************************************************)
C10_ForwardToTwoOutcomes ==
    /\ [][StageRank(pc) <= StageRank(pc')]_vars
    /\ [](pc = "Done" => outcome \in {"Success", "Failure"})
    /\ [](outcome = "Success" => Remainder = 0 /\ p.instruments = Parsed)

====
